---- MODULE Spec2Model ----
(***************************************************************************)
(* Swasth-Diet: the AI chat proxy.                                         *)
(*                                                                         *)
(* Two copies of the same retry wrapper exist in the repository:           *)
(*   "client"  callGeminiApi, reached from the chat UI's handleChatSend    *)
(*             (src/unnamed/part_001)                                      *)
(*   "server"  the POST /chat route handler                                *)
(*             (src/server/routes/userRoutes.js)                           *)
(* Each is modelled as one process; the upstream AI service is the         *)
(* environment, which settles every request with a transport error, an     *)
(* HTTP status, and (for a 2xx status) a body.                             *)
(*                                                                         *)
(* JavaScript values: `undefined` is the empty sequence UNDEF and a        *)
(* defined value v is Some(v) = <<v>>, so that optional chaining (a?.b)    *)
(* can be followed step by step.  Text typed by the user is a sequence of  *)
(* one-character strings, so that String.prototype.trim is computed.       *)
(***************************************************************************)
EXTENDS Naturals, Integers, Sequences, FiniteSets, TLC

VARIABLES
    chatInput,   \* client UI: the chat text box (useState(''), part_001:749)
    isTyping,    \* client UI: a chat call is running (useState(false), part_001:750)
    chatMessages, \* client UI: the conversation (useState([greeting]), part_001:741)
    view,        \* client UI: the state the last render gave the chat handlers
    inFlight,    \* client UI: callGeminiApi calls handleChatSend awaits
    ignored,     \* client UI: a send event came while a call was awaited, and returned
    currentPage, \* client UI: the page (useState('auth'), part_001:722)
    isLoggedIn,  \* client UI: useState(false), part_001:723
    appUserData, \* client UI: userData, the profile the pages show (part_001:725)
    localToken,  \* localStorage 'token' (UNDEF: none)
    screen,      \* client UI: what the last render returned: none, AuthScreen or App
    fetchPc,     \* fetchUserProfile: idle or awaiting
    authPc,      \* AuthScreen.handleAuth: idle or awaiting
    isAuthLoading, \* AuthScreen: useState(false), part_001:130
    authError,   \* AuthScreen: useState(''), part_001:131
    authData,    \* the body of the last successful answer to handleAuth
    updPc,       \* ProfileScreen.handleProfileUpdate: idle or awaiting
    updData,     \* ProfileScreen.handleProfileUpdate: formattedData of the running call
    updResult,   \* ProfileScreen.handleProfileUpdate: the callback the last call ended in
    pc,          \* per call: where the handler is suspended
    reqQuery,    \* per call: userQuery as the handler received it (raw)
    reqData,     \* per call: userData as the handler received it
    payload,     \* per call: the request body built for the upstream (UNDEF: none)
    i,           \* per call: the loop variable of the retry loop
    calls,       \* per call: upstream requests issued by this call
    pending,     \* per call: attempt indices whose upstream request is in flight
    resp,        \* per call: the latest upstream settlement
    settled,     \* per call: upstream answers the environment has delivered to this call
    log,         \* per call: attempt numbers written by console.error
    delay,       \* per call: duration of the running backoff timer (ms; 0: none)
    bases,       \* per call: the backoff delays of this call so far, without their jitter term
    result,      \* per call: ChatResponse bodies delivered to the caller
    status,      \* per call: HTTP status of the server's response (0: none)
    outcome,     \* per call: NONE, SUCCESS, EXHAUSTED or FAULT
    nIn,         \* normalizer harness: the upstream body under test
    nOut,        \* normalizer harness: what the success path made of it
    pIn,         \* prompt harness: the userData under test
    pOut,        \* prompt harness: the values the prompt templates interpolate
    aPc,         \* API request: idle, handler (a handler is suspended) or closed
    req,         \* API request: route, x-auth-token header and body
    reqUser,     \* API request: req.user
    nextCalled,  \* API request: the auth middleware called next()
    handlerRan,  \* API request: the route handler was entered
    apiRes,      \* API request: the response sent (status 0: none)
    db           \* the User collection, by _id

chatVars == <<chatInput, isTyping, pc, reqQuery, reqData, payload, i, calls, pending,
              resp, settled, log, delay, bases, result, status, outcome>>
normVars == <<nIn, nOut>>
promptVars == <<pIn, pOut>>
apiVars == <<aPc, req, reqUser, nextCalled, handlerRan, apiRes, db>>
uiVars == <<chatMessages, view, inFlight, ignored>>
sessionVars == <<currentPage, isLoggedIn, appUserData, localToken, screen, fetchPc, authPc,
                 isAuthLoading, authError, authData, updPc, updData, updResult>>
pageVars == <<uiVars, sessionVars>>
sideVars == <<promptVars, apiVars, pageVars>>
vars == <<chatInput, isTyping, chatMessages, view, inFlight, ignored, currentPage, isLoggedIn,
          appUserData, localToken, screen, fetchPc, authPc, isAuthLoading, authError, authData, updPc, updData,
          updResult, pc, reqQuery, reqData, payload, i, calls, pending,
          resp, settled, log, delay, bases, result, status, outcome, nIn, nOut, pIn, pOut,
          aPc, req, reqUser, nextCalled, handlerRan, apiRes, db>>

\* "server2" is a second request to the route handler, served while the
\* first is suspended at an await.
Calls == {"client", "server", "server2"}
Servers == {"server", "server2"}

----------------------------------------------------------------------------
(* JavaScript values *)

UNDEF == <<>>
Some(v) == <<v>>
IsDefined(o) == o # UNDEF
Val(o) == o[1]

\* JS truthiness of an optional string: undefined and '' are falsy.
Truthy(o) == IsDefined(o) /\ Val(o) # ""

\* Bounds
MaxAttrs == 2

\* const MAX_RETRIES = 5;
MAX_RETRIES == 5

\* Questions the chat page is followed for.
MaxExchanges == 2

Whitespace == {" "}

RECURSIVE TrimLeft(_)
TrimLeft(s) == IF s # <<>> /\ Head(s) \in Whitespace THEN TrimLeft(Tail(s)) ELSE s

RECURSIVE TrimRight(_)
TrimRight(s) ==
    IF s # <<>> /\ s[Len(s)] \in Whitespace
    THEN TrimRight(SubSeq(s, 1, Len(s) - 1))
    ELSE s

\* String.prototype.trim
Trim(s) == TrimRight(TrimLeft(s))

----------------------------------------------------------------------------
(* The upstream response body, as response.json() yields it:                *)
(*   { candidates: [ { content: { parts: [ { text } ] },                    *)
(*                     groundingMetadata: { groundingAttributions:          *)
(*                                          [ { web: { uri, title } } ] } } ] } *)
(* Every level may be undefined; an attribution entry may be null.          *)

WebAttr(u, t) == [isNull |-> FALSE, web |-> Some([uri |-> u, title |-> t])]
NoWebAttr == [isNull |-> FALSE, web |-> UNDEF]
NullAttr == [isNull |-> TRUE, web |-> UNDEF]

Part(t) == [text |-> t]
Candidate(parts, attrs) ==
    [content |-> Some([parts |-> parts]),
     groundingMetadata |-> Some([groundingAttributions |-> attrs])]
CandidateNoMetadata(parts) ==
    [content |-> Some([parts |-> parts]), groundingMetadata |-> UNDEF]
CandidateNoContent == [content |-> UNDEF, groundingMetadata |-> UNDEF]
Body(cands) == [parses |-> TRUE, candidates |-> cands]
Unparsable == [parses |-> FALSE, candidates |-> UNDEF]

\* const candidate = result.candidates?.[0];
FirstCandidate(res) ==
    IF ~IsDefined(res.candidates) THEN UNDEF
    ELSE IF Len(Val(res.candidates)) = 0 THEN UNDEF
    ELSE Some(Val(res.candidates)[1])

CandidateTextAnyPart(cand) ==
    IF ~IsDefined(cand.content) THEN UNDEF
    ELSE IF ~IsDefined(Val(cand.content).parts) THEN UNDEF
    ELSE LET WithText(p) == Truthy(p.text)
             texts == SelectSeq(Val(Val(cand.content).parts), WithText)
         IN  IF texts = <<>> THEN UNDEF ELSE texts[1].text

\* candidate.content?.parts?.[0]?.text
CandidateText(cand) ==
    IF ~IsDefined(cand.content) THEN UNDEF
    ELSE IF ~IsDefined(Val(cand.content).parts) THEN UNDEF
    ELSE IF Len(Val(Val(cand.content).parts)) = 0 THEN UNDEF
    ELSE Val(Val(cand.content).parts)[1].text

HasTextPresentOnly(candidate) ==
    IsDefined(candidate) /\ IsDefined(CandidateText(Val(candidate)))

\* if (candidate && candidate.content?.parts?.[0]?.text)
HasText(candidate) ==
    IsDefined(candidate) /\ Truthy(CandidateText(Val(candidate)))

\* attr => ({ uri: attr.web?.uri, title: attr.web?.title })
MapAttribution(attr) ==
    [uri   |-> IF IsDefined(attr.web) THEN Val(attr.web).uri ELSE UNDEF,
     title |-> IF IsDefined(attr.web) THEN Val(attr.web).title ELSE UNDEF]

KeepSourceUriOnly(source) == Truthy(source.uri)

\* .filter(source => source.uri && source.title)
KeepSource(source) == Truthy(source.uri) /\ Truthy(source.title)

\* candidate.groundingMetadata?.groundingAttributions
Attributions(cand) ==
    IF IsDefined(cand.groundingMetadata)
    THEN Val(cand.groundingMetadata).groundingAttributions
    ELSE UNDEF

\* attr.web on a null entry throws a TypeError inside .map
MapThrows(cand) ==
    /\ IsDefined(Attributions(cand))
    /\ \E k \in 1..Len(Val(Attributions(cand))) : Val(Attributions(cand))[k].isNull

\* let sources = []; if (...groundingAttributions) sources = ....map(...).filter(...)
ExtractSources(cand) ==
    IF IsDefined(Attributions(cand))
    THEN LET attrs == Val(Attributions(cand))
             mapped == [k \in 1..Len(attrs) |-> MapAttribution(attrs[k])]
         IN  SelectSeq(mapped, KeepSource)
    ELSE <<>>

NoParse == [ok |-> FALSE, text |-> UNDEF, sources |-> <<>>]

\* The try block from `const result = await response.json()` on: what it
\* returns (ok), or that it threw (~ok).
ParseBody(res) ==
    IF ~res.parses THEN NoParse
    ELSE LET candidate == FirstCandidate(res) IN
         IF HasText(candidate)
         THEN IF MapThrows(Val(candidate)) THEN NoParse
              ELSE [ok |-> TRUE,
                    text |-> CandidateText(Val(candidate)),
                    sources |-> ExtractSources(Val(candidate))]
         ELSE NoParse

IsOkOnly200(st) == st = 200

\* response.ok
IsOk(st) == st >= 200 /\ st <= 299

----------------------------------------------------------------------------
(* The prompt builder.  A field of userData is a tagged JavaScript value; *)
(* a template literal is modelled by the values of its ${...} slots.       *)

MaxItems == 2

Undefined == [t |-> "undefined"]
Null == [t |-> "null"]
Str(s) == [t |-> "string", chars |-> s]
Num(n) == [t |-> "number", num |-> n]
Arr(l) == [t |-> "array", items |-> l]

\* ToBoolean: undefined, null, '' and 0 are falsy; every array is truthy.
JsTruthy(x) ==
    CASE x.t = "undefined" -> FALSE
      [] x.t = "null" -> FALSE
      [] x.t = "string" -> x.chars # ""
      [] x.t = "number" -> x.num # 0
      [] x.t = "array" -> TRUE

OrNullish(x, y) == IF x.t \in {"undefined", "null"} THEN y ELSE x

\* x || y
Or(x, y) == IF JsTruthy(x) THEN x ELSE y

RECURSIVE Join(_, _)
\* Array.prototype.join(sep) on an array of strings
Join(l, sep) ==
    IF l = <<>> THEN ""
    ELSE IF Len(l) = 1 THEN l[1]
    ELSE l[1] \o sep \o Join(Tail(l), sep)

\* ${x}: the string a template literal makes of a value
ToStr(x) ==
    CASE x.t = "undefined" -> "undefined"
      [] x.t = "null" -> "null"
      [] x.t = "string" -> x.chars
      [] x.t = "number" -> ToString(x.num)
      [] x.t = "array" -> Join(x.items, ",")

arrayToStringDefaultJoin(value) ==
    IF value.t = "array" THEN Str(Join(value.items, ",")) ELSE Or(value, Str(""))

\* if (Array.isArray(value)) return value.join(', '); return value || '';
arrayToString(value) ==
    IF value.t = "array" THEN Str(Join(value.items, ", ")) ELSE Or(value, Str(""))

\* The ${...} slots of the profileContext template, by field.
profileContext(userData) ==
    [name |-> ToStr(Or(userData.name, Str("N/A"))),
     age |-> ToStr(Or(userData.age, Str("N/A"))),
     weight |-> ToStr(Or(userData.weight, Str("N/A"))),
     height |-> ToStr(Or(userData.height, Str("N/A"))),
     goal |-> ToStr(Or(userData.goal, Str("General Health"))),
     region |-> ToStr(Or(userData.region, Str("All India"))),
     dietPreference |-> ToStr(Or(userData.dietPreference, Str("N/A"))),
     healthIssues |-> ToStr(Or(arrayToString(userData.healthIssues), Str("None"))),
     allergies |-> ToStr(Or(arrayToString(userData.allergies), Str("None")))]

\* The lines of the profile summary that carry the two lists.
HealthIssuesLine(ctx) == "Health Issues: " \o ctx.healthIssues
AllergiesLine(ctx) == "Allergies: " \o ctx.allergies

\* The slots of the systemPrompt template: the region named in instruction 2
\* and the profile summary.
systemPrompt(userData) ==
    [instructionRegion |-> ToStr(Or(userData.region, Str("India"))),
     profileContext |-> profileContext(userData)]

\* userData with no field at all
EmptyUserData ==
    [name |-> Undefined, age |-> Undefined, weight |-> Undefined,
     height |-> Undefined, goal |-> Undefined, region |-> Undefined,
     dietPreference |-> Undefined, healthIssues |-> Undefined,
     allergies |-> Undefined]

\* const payload = { contents: [{ parts: [{ text: userQuery }] }],
\*                   tools: [{ "google_search": {} }],
\*                   systemInstruction: { parts: [{ text: systemPrompt }] } };
BuildPayload(userQuery, userData) ==
    [contents |-> userQuery,
     tools |-> <<"google_search">>,
     systemInstruction |-> systemPrompt(userData)]

----------------------------------------------------------------------------
(* What the environment can do: sample inputs and upstream answers *)

\* Text a user can type / a client can post as userQuery.
QueryInputs == {<<>>, <<" ">>, <<" ", "h", " ">>}
ServerQueries == {UNDEF, Some(<<" ">>), Some(<<"h">>)}

\* userData: the profile object, or nothing at all in the request body.
SampleUser ==
    [EmptyUserData EXCEPT !.name = Str("Asha"), !.region = Str("South India")]
UserDataInputs == {UNDEF, Some(SampleUser)}

S1 == WebAttr(Some("u1"), Some("t1"))
S2 == WebAttr(Some("u2"), Some("t2"))
UriOnly == WebAttr(Some("u3"), UNDEF)
TitleOnly == WebAttr(UNDEF, Some("t4"))
EmptyTitle == WebAttr(Some("u5"), Some(""))
AttrShapes == {S1, S2, UriOnly, TitleOnly, EmptyTitle, NoWebAttr, NullAttr}

SeqsUpTo(S, n) == UNION {[1..m -> S] : m \in 0..n}

TextA == <<Part(Some("A"))>>

\* Bodies that carry a text at the expected path.
TextBodies ==
    { Body(Some(<<CandidateNoMetadata(Some(TextA))>>)),
      Body(Some(<<Candidate(Some(<<Part(Some("B")), Part(Some("A"))>>), UNDEF)>>)),
      Body(Some(<<Candidate(Some(TextA), Some(<<>>))>>)),
      Body(Some(<<Candidate(Some(TextA), Some(<<UriOnly, S1>>))>>)),
      Body(Some(<<Candidate(Some(TextA), Some(<<S2, NoWebAttr, S1>>)),
                  CandidateNoMetadata(Some(<<Part(Some("B"))>>))>>)) }

\* Bodies of the wrong shape.
ShapelessBodies ==
    { Unparsable,
      Body(UNDEF),
      Body(Some(<<>>)),
      Body(Some(<<CandidateNoContent>>)),
      Body(Some(<<CandidateNoMetadata(UNDEF)>>)),
      Body(Some(<<CandidateNoMetadata(Some(<<>>))>>)),
      Body(Some(<<CandidateNoMetadata(Some(<<Part(UNDEF), Part(Some("A"))>>))>>)),
      Body(Some(<<CandidateNoMetadata(Some(<<Part(Some(""))>>))>>)),
      Body(Some(<<CandidateNoContent, CandidateNoMetadata(Some(TextA))>>)),
      Body(Some(<<Candidate(Some(TextA), Some(<<S1, NullAttr>>))>>)) }

SampleBodies == TextBodies \cup ShapelessBodies

\* Math.random() * 1000, sampled
JitterSamples == {0, 999}

NoResp == [kind |-> "none", status |-> 0, read |-> FALSE, body |-> Unparsable]
Reject == [kind |-> "reject", status |-> 0, read |-> FALSE, body |-> Unparsable]
HttpBody(st, b) == [kind |-> "http", status |-> st, read |-> TRUE, body |-> b]

----------------------------------------------------------------------------
(* The chat page *)

\* useState([...]) of chatMessages: the greeting of the assistant.
Greeting ==
    [sender |-> "bot",
     text |-> Some("I'm your AI nutrition assistant. I can help you with meal planning, nutrition advice, and answer your dietary questions in Hindi or English!"),
     sources |-> <<>>]

\* { sender: 'user', text: userQuery, sources: [] }
UserMessage(userQuery) == [sender |-> "user", text |-> Some(userQuery), sources |-> <<>>]

\* { sender: 'bot', ...botResponse }
BotMessage(response) ==
    [sender |-> "bot", text |-> response.text, sources |-> response.sources]

PrependMessage(prev, message) == <<message>> \o prev

\* setChatMessages(prev => [...prev, message])
AppendMessage(prev, message) == Append(prev, message)

\* the negation of the test of `if (!chatInput.trim() || isTyping) return;`
CanSend(input, typing) == ~(Trim(input) = <<>> \/ typing)

TypingWhileAwaitingOff == FALSE

\* setIsTyping(true) before the await
TypingWhileAwaiting == TRUE

----------------------------------------------------------------------------
(* The retry wrapper *)

FallbackTextShared(c) == "Sorry, I encountered an error. Please try again."

\* botResponse (client) / the body of the final res.status(500).json (server)
FallbackText(c) ==
    IF c = "client"
    THEN "Sorry, I encountered a network error and could not reach the AI. Please check your connection and try again."
    ELSE "Sorry, I encountered an error. Please try again."

botResponse(c) == [text |-> Some(FallbackText(c)), sources |-> <<>>]

ResponseStatusAlways200(c, oc) == IF c \in Servers THEN 200 ELSE 0

\* res.json(...) answers 200; res.status(500).json(...) answers 500.
\* callGeminiApi returns a value and has no status (0).
ResponseStatus(c, oc) ==
    IF c \in Servers THEN (IF oc = "SUCCESS" THEN 200 ELSE 500) ELSE 0

\* userData.name on an undefined userData throws a TypeError while the
\* profileContext template is evaluated, before the retry loop.
PromptThrows(data) == ~IsDefined(data)

\* for (...; i < MAX_RETRIES; ...)
LoopCond(n) == n < MAX_RETRIES

NextAttemptStuck(n) == n

\* for (...; ...; i++)
NextAttempt(n) == n + 1

LastAttemptNever(n) == FALSE

LastAttemptEarly(n) == n = MAX_RETRIES - 2

\* if (i === MAX_RETRIES - 1)
LastAttempt(n) == n = MAX_RETRIES - 1

BackoffDelayConstant(n, jitter) == 1000 + jitter

BackoffDelayLinear(n, jitter) == (n + 1) * 1000 + jitter

\* const delay = Math.pow(2, i) * 1000 + Math.random() * 1000;
BackoffDelay(n, jitter) == (2 ^ n) * 1000 + jitter

FinishedPcKeepsLooping(c) == "sleeping"

\* Where a call that has returned is left: callGeminiApi's caller
\* (handleChatSend) still has to resume; the route handler is finished.
FinishedPc(c) == IF c = "client" THEN "returned" ELSE "done"

\* return { text, sources } / return botResponse / res.json(...)
Deliver(c, body, oc) ==
    /\ result' = [result EXCEPT ![c] = Append(@, body)]
    /\ status' = [status EXCEPT ![c] = ResponseStatus(c, oc)]
    /\ outcome' = [outcome EXCEPT ![c] = oc]

IssueFetchNoAwait(c, n, issued, inflight) ==
    /\ pc' = [pc EXCEPT ![c] = "sleeping"]
    /\ calls' = [calls EXCEPT ![c] = issued + 1]
    /\ pending' = [pending EXCEPT ![c] = inflight \cup {n}]

\* const response = await fetch(GEMINI_API_URL, {...}): attempt n goes out
\* and the call is suspended until it settles.
IssueFetch(c, n, issued, inflight) ==
    /\ pc' = [pc EXCEPT ![c] = "fetching"]
    /\ calls' = [calls EXCEPT ![c] = issued + 1]
    /\ pending' = [pending EXCEPT ![c] = inflight \cup {n}]

AttemptNumberZeroBased(n) == n

\* `attempt ${i + 1} failed:`
AttemptNumber(n) == n + 1

ConsoleErrorDropped(lg, n) == lg

\* console.error(`Gemini API attempt ${i + 1} failed:`, error)
ConsoleError(lg, n) == Append(lg, AttemptNumber(n))

\* catch (error) { console.error(...); if (last) return fallback;
\*                 delay = ...; await new Promise(setTimeout) }
CatchBlock(c, jitter) ==
    /\ log' = [log EXCEPT ![c] = ConsoleError(@, i[c])]
    /\ IF LastAttempt(i[c])
       THEN /\ Deliver(c, botResponse(c), "EXHAUSTED")
            /\ pc' = [pc EXCEPT ![c] = FinishedPc(c)]
            /\ UNCHANGED <<delay, bases>>
       ELSE /\ delay' = [delay EXCEPT ![c] = BackoffDelay(i[c], jitter)]
            /\ bases' = [bases EXCEPT ![c] = Append(@, BackoffDelay(i[c], jitter) - jitter)]
            /\ pc' = [pc EXCEPT ![c] = "sleeping"]
            /\ UNCHANGED <<result, status, outcome>>

\* Upstream answers: a transport error, a non-2xx status (its body is never
\* read), or a 2xx status with a body.
Answers ==
    {Reject}
    \cup {HttpBody(st, Unparsable) : st \in {404, 500}}
    \cup {HttpBody(200, b) : b \in SampleBodies}
    \cup {HttpBody(201, b) : b \in {Body(Some(<<CandidateNoMetadata(Some(TextA))>>)),
                                    Body(Some(<<>>))}}

LoopStartShared(iv, c) == [d \in Calls |-> 0]

\* for (let i = 0; ...): each invocation declares its own i
LoopStart(iv, c) == [iv EXCEPT ![c] = 0]

\* The synchronous prefix of callGeminiApi / of the route handler: build the
\* prompt and the payload, enter the loop with i = 0 and send attempt 0.
StartCall(c, raw, data) ==
    /\ reqQuery' = [reqQuery EXCEPT ![c] = raw]
    /\ reqData' = [reqData EXCEPT ![c] = data]
    /\ payload' = [payload EXCEPT ![c] =
                      IF PromptThrows(data) THEN UNDEF
                      ELSE Some(BuildPayload(raw, Val(data)))]
    /\ i' = LoopStart(i, c)
    /\ resp' = [resp EXCEPT ![c] = NoResp]
    /\ settled' = [settled EXCEPT ![c] = 0]
    /\ log' = [log EXCEPT ![c] = <<>>]
    /\ delay' = [delay EXCEPT ![c] = 0]
    /\ bases' = [bases EXCEPT ![c] = <<>>]
    /\ result' = [result EXCEPT ![c] = <<>>]
    /\ status' = [status EXCEPT ![c] = 0]
    /\ IF PromptThrows(data)
       THEN /\ pc' = [pc EXCEPT ![c] = "fault"]
            /\ calls' = [calls EXCEPT ![c] = 0]
            /\ pending' = [pending EXCEPT ![c] = {}]
            /\ outcome' = [outcome EXCEPT ![c] = "FAULT"]
       ELSE /\ IssueFetch(c, 0, 0, {})
            /\ outcome' = [outcome EXCEPT ![c] = "NONE"]

\* An invocation that returns before anything is sent.
SkipCall(c, raw) ==
    /\ reqQuery' = [reqQuery EXCEPT ![c] = raw]
    /\ reqData' = [reqData EXCEPT ![c] = UNDEF]
    /\ payload' = [payload EXCEPT ![c] = UNDEF]
    /\ i' = [i EXCEPT ![c] = 0]
    /\ resp' = [resp EXCEPT ![c] = NoResp]
    /\ settled' = [settled EXCEPT ![c] = 0]
    /\ log' = [log EXCEPT ![c] = <<>>]
    /\ delay' = [delay EXCEPT ![c] = 0]
    /\ bases' = [bases EXCEPT ![c] = <<>>]
    /\ result' = [result EXCEPT ![c] = <<>>]
    /\ status' = [status EXCEPT ![c] = 0]
    /\ pc' = [pc EXCEPT ![c] = "idle"]
    /\ calls' = [calls EXCEPT ![c] = 0]
    /\ pending' = [pending EXCEPT ![c] = {}]
    /\ outcome' = [outcome EXCEPT ![c] = "NONE"]

----------------------------------------------------------------------------
(* The private routes: the auth middleware, GET and PUT /profile, and the  *)
(* entry of POST /chat.  One request at a time is followed from its        *)
(* arrival to its response; the chat handler is followed to its first      *)
(* await, from where Spec continues.                                       *)

Routes == {"GET /profile", "PUT /profile", "POST /chat"}

\* A signed token: the secret it was signed with, whether it has expired,
\* and the `user` member of its payload.
Jwt(secret, expired, user) ==
    [kind |-> "jwt", secret |-> secret, expired |-> expired, user |-> user]
Garbage == [kind |-> "garbage"]
EmptyHeader == [kind |-> "empty"]

\* if (!token): the header is missing or is the empty string
NoToken(header) == header = UNDEF \/ Val(header) = EmptyHeader

JwtVerifyIgnoresExpiry(token) ==
    IF token.kind = "jwt" /\ token.secret = "JWT_SECRET"
    THEN [ok |-> TRUE, user |-> token.user]
    ELSE [ok |-> FALSE, user |-> UNDEF]

\* jwt.verify(token, process.env.JWT_SECRET): the payload, or it throws
\* (ok = FALSE) on a malformed token, a wrong signature or an expired token.
JwtVerify(token) ==
    IF token.kind = "jwt" /\ token.secret = "JWT_SECRET" /\ ~token.expired
    THEN [ok |-> TRUE, user |-> token.user]
    ELSE [ok |-> FALSE, user |-> UNDEF]

NoRes == [status |-> 0, body |-> [kind |-> "none"]]
\* res.status(st).json({ msg })
JsonMsg(st, msg) == [status |-> st, body |-> [kind |-> "msg", msg |-> msg]]
\* res.status(500).send('Server Error')
SendText(st, text) == [status |-> st, body |-> [kind |-> "text", text |-> text]]
\* res.json(user)
JsonUser(doc) == [status |-> 200, body |-> [kind |-> "user", doc |-> doc]]

\* User.findById(id): the document, or null
FindById(users, id) == IF id \in DOMAIN users THEN Some(users[id]) ELSE UNDEF

SelectAll(doc) == doc

\* .select('-password')
SelectMinusPassword(doc) == [f \in DOMAIN doc \ {"password"} |-> doc[f]]

\* if (weight !== undefined) profileFields.weight = weight;  (also height,
\* age, targetWeight)
IfDefined(x) == IF x.t = "undefined" THEN Undefined ELSE x
\* if (region) profileFields.region = region;  (also gender, healthIssues,
\* goal, activityLevel, dietPreference, allergies)
IfTruthy(x) == IF JsTruthy(x) THEN x ELSE Undefined

\* profileFields, with Undefined for a key that was not set.  One field of
\* each kind is followed: a Number, a String and a list.
profileFields(body) ==
    [weight |-> IfDefined(body.weight),
     region |-> IfTruthy(body.region),
     healthIssues |-> IfTruthy(body.healthIssues)]

SpreadProfileReplaces(profile, fields) == fields

\* { ...user.profile.toObject(), ...profileFields }
SpreadProfile(profile, fields) ==
    [f \in DOMAIN profile |->
        IF fields[f].t = "undefined" THEN profile[f] ELSE fields[f]]

\* user.profile = {...}; if (name) user.name = name;
UpdatedUser(user, body) ==
    [user EXCEPT !.profile = SpreadProfile(@, profileFields(body)),
                 !.name = IF JsTruthy(body.name) THEN body.name.chars ELSE @]

----------------------------------------------------------------------------
(* The session of the web client: the auth screen, the profile fetch,      *)
(* navigation and logout.  Paths are sequences of segments.                *)

\* useState({...}) of userData
InitialUserData ==
    [name |-> Str(""), email |-> Str(""), weight |-> Str(""), height |-> Str(""),
     age |-> Str(""), gender |-> Str(""), region |-> Str(""), healthIssues |-> Arr(<<>>),
     goal |-> Str(""), targetWeight |-> Str(""), activityLevel |-> Str(""),
     dietPreference |-> Str(""), allergies |-> Arr(<<>>)]

LoggedOutUserDataKeepsName ==
    [name |-> Str("Asha"), email |-> Str(""), weight |-> Str(""), height |-> Str(""),
     age |-> Str(""), gender |-> Str(""), region |-> Str(""), healthIssues |-> Arr(<<>>),
     goal |-> Str(""), targetWeight |-> Str(""), activityLevel |-> Str(""),
     dietPreference |-> Str(""), allergies |-> Arr(<<>>)]

\* the object handleLogout passes to setUserData
LoggedOutUserData ==
    [name |-> Str(""), email |-> Str(""), weight |-> Str(""), height |-> Str(""),
     age |-> Str(""), gender |-> Str(""), region |-> Str(""), healthIssues |-> Arr(<<>>),
     goal |-> Str(""), targetWeight |-> Str(""), activityLevel |-> Str(""),
     dietPreference |-> Str(""), allergies |-> Arr(<<>>)]

\* {...prev, ...obj}: the fields obj has replace those of prev (JSON and
\* the form carry no undefined field).
Spread(prev, obj) ==
    [f \in DOMAIN prev |->
        IF f \in DOMAIN obj /\ obj[f].t # "undefined" THEN obj[f] ELSE prev[f]]

\* setUserData(prev => ({...prev, name: user.name, email: user.email, ...user.profile}))
FetchedUserData(prev, user) ==
    Spread([prev EXCEPT !.name = user.name, !.email = user.email], user.profile)

\* setUserData(prev => ({...prev, ...updatedData, healthIssues: ..., allergies: ...}))
UpdatedUserData(prev, updatedData) ==
    [Spread(prev, updatedData) EXCEPT !.healthIssues = updatedData.healthIssues,
                                      !.allergies = updatedData.allergies]

\* if (!isLoggedIn && currentPage !== 'auth' && currentPage !== 'register')
\*     setCurrentPage('auth');
\* A state update during render makes React render again at once, with
\* the new state; what the first pass returned is dropped.
AuthGuard(loggedIn, page) ==
    IF ~loggedIn /\ page # "auth" /\ page # "register" THEN "auth" ELSE page

ScreenForAlwaysApp(page) == "App"

\* if (currentPage === 'auth' || currentPage === 'register') return <AuthScreen .../>
ScreenFor(page) ==
    IF page = "auth" \/ page = "register" THEN "AuthScreen" ELSE "App"

\* The render after setIsLoggedIn(loggedIn) and setCurrentPage(page).
Commit(loggedIn, page) ==
    /\ isLoggedIn' = loggedIn
    /\ currentPage' = AuthGuard(loggedIn, page)
    /\ screen' = ScreenFor(AuthGuard(loggedIn, page))

\* fetch(`${API_URL}/api/user/profile`, {method: 'GET', ...})
ProfileFetchPath == <<"api", "user", "profile">>
\* fetch(`${API_URL}/user/profile`, {method: 'PUT', ...})
ProfileUpdatePath == <<"user", "profile">>
\* fetch(`${API_URL}/api/auth/${endpoint}`, {method: 'POST', ...})
AuthPath(endpoint) == <<"api", "auth", endpoint>>

\* app.use('/api/auth', authRoutes); app.use('/api/user', userRoutes);
\* with the routes of userRoutes.  What authRoutes answers is left open.
Routed(method, path) ==
    \/ Len(path) >= 2 /\ SubSeq(path, 1, 2) = <<"api", "auth">>
    \/ <<method, path>> \in {<<"GET", <<"api", "user", "profile">>>>,
                             <<"PUT", <<"api", "user", "profile">>>>,
                             <<"POST", <<"api", "user", "chat">>>>}

\* What a fetch of the client resolves to: response.ok with a JSON body,
\* a refusal with a JSON body, the 404 page of Express (not JSON), or a
\* rejection.
OkJson(data) == [kind |-> "http", ok |-> TRUE, json |-> TRUE, data |-> data]
ErrJson(msg) == [kind |-> "http", ok |-> FALSE, json |-> TRUE, data |-> [msg |-> msg]]
NotFoundPage == [kind |-> "http", ok |-> FALSE, json |-> FALSE, data |-> [msg |-> ""]]
NetworkError == [kind |-> "reject", ok |-> FALSE, json |-> FALSE, data |-> [msg |-> ""]]

\* What the server of API_URL can answer to a request of the client.
FetchAnswers(method, path, bodies) ==
    IF Routed(method, path)
    THEN {OkJson(b) : b \in bodies} \cup {ErrJson("Token is not valid"), NetworkError}
    ELSE {NotFoundPage, NetworkError}

\* the user document of GET /profile as the client reads it
UserJson(doc) == [name |-> Str(doc.name), email |-> Str(doc.email), profile |-> doc.profile]

\* localStorage.removeItem('token'); setIsLoggedIn(false); setUserData({...});
\* setCurrentPage('auth');
LogoutEffects ==
    /\ localToken' = UNDEF
    /\ appUserData' = LoggedOutUserData
    /\ Commit(FALSE, "auth")

\* AuthScreen is taken off the page: its state is gone, and what a running
\* handleAuth sets later is set on nothing.
AuthScreenFresh ==
    /\ authPc' = "idle"
    /\ isAuthLoading' = FALSE
    /\ authError' = ""

----------------------------------------------------------------------------
(* Actions *)

\* What a render of the chat page hands to its event handlers: they are
\* closures over the state of that render.
Rendered(input, typing, messages) ==
    [chatInput |-> input, isTyping |-> typing, chatMessages |-> messages]

\* Nothing of the chat call changes.
CallUnchanged ==
    UNCHANGED <<pc, reqQuery, reqData, payload, i, calls, pending, resp, settled, log,
                delay, bases, result, status, outcome>>

\* onChange={(e) => setChatInput(e.target.value)}; the input is disabled
\* while the render saw isTyping.  The update is made in an event handler:
\* React renders again before the next event is handled.
SetChatInput(s) ==
    /\ ~view.isTyping
    /\ view.chatInput # s
    /\ chatInput' = s
    /\ view' = Rendered(s, isTyping, chatMessages)
    /\ CallUnchanged
    /\ UNCHANGED <<isTyping, chatMessages, inFlight, ignored, nIn, nOut>>
    /\ UNCHANGED <<promptVars, apiVars, sessionVars>>

\* handleChatSend up to its await, run by a click on the send button or by
\* Enter in the text box: the guard on the state the handler closed over,
\* the state updates, the synchronous prefix of
\* callGeminiApi(userQuery, userData), and the render that follows the event.
handleChatSend ==
    /\ IF ~CanSend(view.chatInput, view.isTyping)
       THEN /\ IF pc["client"] \in {"idle", "done"}
               THEN /\ SkipCall("client", Some(view.chatInput))
                    /\ UNCHANGED ignored
               ELSE /\ CallUnchanged
                    /\ ignored' = TRUE
            /\ UNCHANGED <<chatInput, isTyping, chatMessages, view, inFlight>>
       ELSE LET userQuery == Trim(view.chatInput) IN
            /\ chatMessages' = AppendMessage(chatMessages, UserMessage(userQuery))
            /\ chatInput' = <<>>
            /\ isTyping' = TypingWhileAwaiting
            /\ StartCall("client", Some(userQuery), Some(SampleUser))
            /\ inFlight' = inFlight + 1
            /\ ignored' = FALSE
            /\ view' = Rendered(chatInput', isTyping', chatMessages')
    /\ UNCHANGED <<nIn, nOut>>
    /\ UNCHANGED <<promptVars, apiVars, sessionVars>>

\* handleChatSend after its await: the bot message and setIsTyping(false).
\* The updates are made outside an event handler: the render follows (Render).
ChatSendResume ==
    /\ pc["client"] = "returned"
    /\ pc' = [pc EXCEPT !["client"] = "done"]
    /\ chatMessages' =
           AppendMessage(chatMessages, BotMessage(result["client"][Len(result["client"])]))
    /\ isTyping' = FALSE
    /\ inFlight' = inFlight - 1
    /\ UNCHANGED <<chatInput, view, ignored, reqQuery, reqData, payload, i, calls, pending,
                   resp, settled, log, delay, bases, result, status, outcome, nIn, nOut>>
    /\ UNCHANGED <<promptVars, apiVars, sessionVars>>

\* React renders the chat page with the state as it is now.
Render ==
    /\ view # Rendered(chatInput, isTyping, chatMessages)
    /\ view' = Rendered(chatInput, isTyping, chatMessages)
    /\ CallUnchanged
    /\ UNCHANGED <<chatInput, isTyping, chatMessages, inFlight, ignored, nIn, nOut>>
    /\ UNCHANGED <<promptVars, apiVars, sessionVars>>

\* Nothing of the chat page changes.
ChatPageUnchanged ==
    /\ CallUnchanged
    /\ UNCHANGED <<chatInput, isTyping, uiVars, normVars, promptVars, apiVars>>

\* useEffect(() => {...}, []): the effect of the first render.
Mount ==
    /\ fetchPc = "start"
    /\ IF IsDefined(localToken) /\ Val(localToken) # ""
       THEN /\ fetchPc' = "awaiting"
            /\ UNCHANGED <<currentPage, isLoggedIn, screen>>
       ELSE /\ fetchPc' = "idle"
            /\ Commit(isLoggedIn, "auth")
    /\ UNCHANGED <<appUserData, localToken, authPc, isAuthLoading, authError, authData, updPc,
                   updData, updResult>>
    /\ ChatPageUnchanged

\* fetchUserProfile from the answer to its request on.
ProfileFetched(answer) ==
    /\ fetchPc = "awaiting"
    /\ fetchPc' = "idle"
    /\ IF answer.kind = "http" /\ answer.ok /\ answer.json
       THEN /\ appUserData' = FetchedUserData(appUserData, answer.data)
            /\ Commit(TRUE, "home")
            /\ AuthScreenFresh
            /\ UNCHANGED localToken
       ELSE /\ LogoutEffects
            /\ UNCHANGED <<authPc, isAuthLoading, authError>>
    /\ UNCHANGED <<authData, updPc, updData, updResult>>
    /\ ChatPageUnchanged

\* AuthScreen.handlePageSwitch(page): the links under the form.
handlePageSwitch(page) ==
    /\ fetchPc # "start"
    /\ screen = "AuthScreen"
    /\ ~isAuthLoading
    /\ page = (IF currentPage = "auth" THEN "register" ELSE "auth")
    /\ Commit(isLoggedIn, page)
    /\ authError' = ""
    /\ UNCHANGED <<appUserData, localToken, fetchPc, authPc, isAuthLoading, authData, updPc,
                   updData, updResult>>
    /\ ChatPageUnchanged

\* onClick={() => handleAuth(isRegister ? 'register' : 'login')}
AuthEndpoint == IF currentPage = "register" THEN "register" ELSE "login"

\* AuthScreen.handleAuth(endpoint) up to its await; the button is disabled
\* while isAuthLoading.
handleAuth(endpoint) ==
    /\ fetchPc # "start"
    /\ screen = "AuthScreen"
    /\ ~isAuthLoading
    /\ endpoint = AuthEndpoint
    /\ isAuthLoading' = TRUE
    /\ authError' = ""
    /\ authPc' = "awaiting"
    /\ authData' = UNDEF
    /\ UNCHANGED <<currentPage, isLoggedIn, appUserData, localToken, screen, fetchPc, updPc,
                   updData, updResult>>
    /\ ChatPageUnchanged

\* AuthScreen.handleAuth from the answer on.  A success ends the loading
\* state and nothing else: the call of onAuthSuccess(data.token) is a
\* comment (part_001:181-182).
AuthSettles(answer) ==
    /\ authPc = "awaiting"
    /\ authPc' = "idle"
    /\ isAuthLoading' = FALSE
    /\ IF answer.kind = "http" /\ answer.json
       THEN IF ~answer.ok
            THEN /\ authError' = answer.data.msg
                 /\ UNCHANGED authData
            ELSE /\ authData' = Some(answer.data)
                 /\ UNCHANGED authError
       ELSE /\ authError' = "Network error or server unavailable. Please check the backend server."
            /\ UNCHANGED authData
    /\ UNCHANGED <<currentPage, isLoggedIn, appUserData, localToken, screen, fetchPc, updPc,
                   updData, updResult>>
    /\ ChatPageUnchanged

\* onClick={() => setCurrentPage(page)} of the header, the cards, the
\* bottom bar and the menu, all on the screen of a logged-in user.
Navigate(page) ==
    /\ screen = "App"
    /\ page # currentPage
    /\ Commit(isLoggedIn, page)
    /\ UNCHANGED <<appUserData, localToken, fetchPc, authPc, isAuthLoading, authError, authData,
                   updPc, updData, updResult>>
    /\ ChatPageUnchanged

\* onClick={handleLogout} in the menu.
handleLogout ==
    /\ screen = "App"
    /\ LogoutEffects
    /\ UNCHANGED <<fetchPc, authPc, isAuthLoading, authError, authData, updPc, updData,
                   updResult>>
    /\ ChatPageUnchanged

\* ProfileScreen.handleProfileUpdate up to its await; the form is disabled
\* while isLoading.
handleProfileUpdate(formattedData) ==
    /\ screen = "App"
    /\ currentPage = "profile"
    /\ updPc = "idle"
    /\ IF ~(IsDefined(localToken) /\ Val(localToken) # "")
       THEN UNCHANGED <<updPc, updData, updResult>>
       ELSE /\ updPc' = "awaiting"
            /\ updData' = Some(formattedData)
            /\ updResult' = "none"
    /\ UNCHANGED <<currentPage, isLoggedIn, appUserData, localToken, screen, fetchPc, authPc,
                   isAuthLoading, authError, authData>>
    /\ ChatPageUnchanged

\* ProfileScreen.handleProfileUpdate from the answer on: a body that is
\* not JSON and a rejection end in the catch block, a refusal in
\* onUpdateError, a success in handleProfileUpdateSuccess(formattedData).
ProfileUpdateSettles(answer) ==
    /\ updPc = "awaiting"
    /\ updPc' = "idle"
    /\ updData' = UNDEF
    /\ IF answer.kind = "http" /\ answer.json /\ answer.ok
       THEN /\ appUserData' = UpdatedUserData(appUserData, Val(updData))
            /\ Commit(isLoggedIn, "home")
            /\ updResult' = "onUpdateSuccess"
       ELSE /\ updResult' = "onUpdateError"
            /\ UNCHANGED <<appUserData, currentPage, isLoggedIn, screen>>
    /\ UNCHANGED <<localToken, fetchPc, authPc, isAuthLoading, authError, authData>>
    /\ ChatPageUnchanged

\* router.post('/chat', ...) up to its first await.
PostChat(c, q, data) ==
    /\ c \in Servers
    /\ pc[c] \in {"idle", "done", "fault"}
    /\ StartCall(c, q, data)
    /\ UNCHANGED <<chatInput, isTyping, nIn, nOut>>
    /\ UNCHANGED sideVars

\* The awaited request of call c settles with answer a; the rest of the try
\* block runs, or the catch block does.  (await fetch and await
\* response.json() are taken together: nothing but the response.ok test
\* lies between them.)
UpstreamSettles(c, a, jitter) ==
    /\ pc[c] = "fetching"
    /\ i[c] \in pending[c]
    /\ resp' = [resp EXCEPT ![c] = a]
    /\ settled' = [settled EXCEPT ![c] = @ + 1]
    /\ pending' = [pending EXCEPT ![c] = @ \ {i[c]}]
    /\ LET parsed == IF a.kind = "http" /\ IsOk(a.status)
                     THEN ParseBody(a.body)
                     ELSE NoParse
       IN  IF parsed.ok
           THEN /\ Deliver(c, [text |-> parsed.text, sources |-> parsed.sources], "SUCCESS")
                /\ pc' = [pc EXCEPT ![c] = FinishedPc(c)]
                /\ UNCHANGED <<log, delay, bases>>
           ELSE CatchBlock(c, jitter)
    /\ UNCHANGED <<chatInput, isTyping, reqQuery, reqData, payload, i, calls, nIn, nOut>>
    /\ UNCHANGED sideVars

\* The backoff timer fires: i++, the loop test, and the next attempt; or the
\* loop ends and the code after it runs (return botResponse in callGeminiApi,
\* nothing in the route handler).
TimerFires(c) ==
    /\ pc[c] = "sleeping"
    /\ delay' = [delay EXCEPT ![c] = 0]
    /\ i' = [i EXCEPT ![c] = NextAttempt(i[c])]
    /\ IF LoopCond(NextAttempt(i[c]))
       THEN /\ IssueFetch(c, NextAttempt(i[c]), calls[c], pending[c])
            /\ resp' = [resp EXCEPT ![c] = NoResp]
            /\ UNCHANGED <<result, status, outcome>>
       ELSE /\ IF c = "client"
               THEN Deliver(c, botResponse(c), "EXHAUSTED")
               ELSE UNCHANGED <<result, status, outcome>>
            /\ pc' = [pc EXCEPT ![c] = FinishedPc(c)]
            /\ UNCHANGED <<calls, pending, resp>>
    /\ UNCHANGED <<chatInput, isTyping, reqQuery, reqData, payload, settled, log, bases,
                   nIn, nOut>>
    /\ UNCHANGED sideVars

\* The normalizer harness: the success path applied to one body.
Normalize ==
    /\ nOut = UNDEF
    /\ nOut' = Some(ParseBody(nIn))
    /\ UNCHANGED <<chatInput, isTyping, pc, reqQuery, reqData, payload, i, calls, pending,
                   resp, settled, log, delay, bases, result, status, outcome, nIn>>
    /\ UNCHANGED sideVars

\* The prompt harness: the templates evaluated on one userData.
ComposePrompt ==
    /\ pOut = UNDEF
    /\ pOut' = Some(systemPrompt(pIn))
    /\ UNCHANGED <<chatVars, normVars, pIn, apiVars, pageVars>>

\* A request to a private route arrives; the previous one has been
\* answered, or was a chat request, which is not followed further.
Request(route, header, body) ==
    /\ \/ aPc \in {"idle", "closed"}
       \/ aPc = "handler" /\ req.route = "POST /chat"
    /\ route = "POST /chat" => pc["server"] \in {"idle", "done", "fault"}
    /\ req' = [route |-> route, token |-> header, body |-> body]
    /\ aPc' = "auth"
    /\ reqUser' = UNDEF
    /\ nextCalled' = FALSE
    /\ handlerRan' = FALSE
    /\ apiRes' = NoRes
    /\ UNCHANGED <<chatVars, normVars, promptVars, db, pageVars>>

\* The route handler up to its first await, entered by next().  req.user.id
\* on an undefined req.user throws inside the try block of the profile
\* handlers; the chat handler does not read req.user.
EnterHandler(user) ==
    /\ handlerRan' = TRUE
    /\ IF req.route = "POST /chat"
       THEN /\ StartCall("server", req.body.userQuery, req.body.userData)
            /\ aPc' = "handler"
            /\ apiRes' = NoRes
            /\ UNCHANGED <<chatInput, isTyping>>
       ELSE /\ IF user = UNDEF
               THEN /\ apiRes' = SendText(500, "Server Error")
                    /\ aPc' = "closed"
               ELSE /\ apiRes' = NoRes
                    /\ aPc' = "handler"
            /\ UNCHANGED chatVars

\* The auth middleware, with the call of next() it makes.
auth ==
    /\ aPc = "auth"
    /\ IF NoToken(req.token)
       THEN /\ apiRes' = JsonMsg(401, "No token, authorization denied")
            /\ aPc' = "closed"
            /\ UNCHANGED <<reqUser, nextCalled, handlerRan, chatVars>>
       ELSE LET decoded == JwtVerify(Val(req.token)) IN
            IF decoded.ok
            THEN /\ reqUser' = decoded.user
                 /\ nextCalled' = TRUE
                 /\ EnterHandler(decoded.user)
            ELSE /\ apiRes' = JsonMsg(401, "Token is not valid")
                 /\ aPc' = "closed"
                 /\ UNCHANGED <<reqUser, nextCalled, handlerRan, chatVars>>
    /\ UNCHANGED <<req, db, normVars, promptVars, pageVars>>

\* router.get('/profile') from `await User.findById(...)` on; the query may
\* fail (dbFails).
GetProfile(dbFails) ==
    /\ aPc = "handler"
    /\ req.route = "GET /profile"
    /\ LET user == FindById(db, Val(reqUser).id) IN
       apiRes' = IF dbFails THEN SendText(500, "Server Error")
              ELSE IF user = UNDEF THEN JsonMsg(404, "User not found")
              ELSE JsonUser(SelectMinusPassword(Val(user)))
    /\ aPc' = "closed"
    /\ UNCHANGED <<req, reqUser, nextCalled, handlerRan, db, chatVars, normVars, promptVars,
                   pageVars>>

\* router.put('/profile') from `await User.findById(...)` on.  failsAt names
\* the database call that throws: find, save, refetch, or none.
PutProfile(failsAt) ==
    /\ aPc = "handler"
    /\ req.route = "PUT /profile"
    /\ LET id == Val(reqUser).id
           user == FindById(db, id)
       IN  IF failsAt = "find"
           THEN /\ apiRes' = SendText(500, "Server Error")
                /\ UNCHANGED db
           ELSE IF user = UNDEF
           THEN /\ apiRes' = JsonMsg(404, "User not found")
                /\ UNCHANGED db
           ELSE IF failsAt = "save"
           THEN /\ apiRes' = SendText(500, "Server Error")
                /\ UNCHANGED db
           ELSE /\ db' = [db EXCEPT ![id] = UpdatedUser(Val(user), req.body)]
                /\ apiRes' = IF failsAt = "refetch"
                          THEN SendText(500, "Server Error")
                          ELSE JsonUser(SelectMinusPassword(UpdatedUser(Val(user), req.body)))
    /\ aPc' = "closed"
    /\ UNCHANGED <<req, reqUser, nextCalled, handlerRan, chatVars, normVars, promptVars,
                   pageVars>>

----------------------------------------------------------------------------
(* Specifications *)

ChatInit ==
    /\ chatInput = <<>>
    /\ isTyping = FALSE
    /\ chatMessages = <<Greeting>>
    /\ view = Rendered(<<>>, FALSE, <<Greeting>>)
    /\ inFlight = 0
    /\ ignored = FALSE
    /\ pc = [c \in Calls |-> "idle"]
    /\ reqQuery = [c \in Calls |-> UNDEF]
    /\ reqData = [c \in Calls |-> UNDEF]
    /\ payload = [c \in Calls |-> UNDEF]
    /\ i = [c \in Calls |-> 0]
    /\ calls = [c \in Calls |-> 0]
    /\ pending = [c \in Calls |-> {}]
    /\ resp = [c \in Calls |-> NoResp]
    /\ settled = [c \in Calls |-> 0]
    /\ log = [c \in Calls |-> <<>>]
    /\ delay = [c \in Calls |-> 0]
    /\ bases = [c \in Calls |-> <<>>]
    /\ result = [c \in Calls |-> <<>>]
    /\ status = [c \in Calls |-> 0]
    /\ outcome = [c \in Calls |-> "NONE"]

\* The page after its first render, with no token in localStorage.
SessionIdle ==
    /\ currentPage = "auth"
    /\ isLoggedIn = FALSE
    /\ appUserData = InitialUserData
    /\ localToken = UNDEF
    /\ screen = "AuthScreen"
    /\ fetchPc = "start"
    /\ authPc = "idle"
    /\ isAuthLoading = FALSE
    /\ authError = ""
    /\ authData = UNDEF
    /\ updPc = "idle"
    /\ updData = UNDEF
    /\ updResult = "none"

PromptIdle ==
    /\ pIn = EmptyUserData
    /\ pOut = UNDEF

\* One registered user, with the profile a new document gets.
StoredUser ==
    [name |-> "Asha", email |-> "asha@example.com", password |-> "$2a$10$hash",
     profile |-> [weight |-> Undefined, region |-> Undefined, healthIssues |-> Arr(<<>>)]]

NoRequest == [route |-> "none", token |-> UNDEF, body |-> UNDEF]

ApiIdle ==
    /\ aPc = "idle"
    /\ req = NoRequest
    /\ reqUser = UNDEF
    /\ nextCalled = FALSE
    /\ handlerRan = FALSE
    /\ apiRes = NoRes
    /\ db = [id \in {"u1"} |-> StoredUser]

NormIdle ==
    /\ nIn = Unparsable
    /\ nOut = UNDEF

Init ==
    /\ ChatInit
    /\ SessionIdle
    /\ NormIdle
    /\ PromptIdle
    /\ ApiIdle

\* Spec follows the chat page up to the end of its first exchange.
FirstExchange == Len(chatMessages) = 1

Next ==
    \/ \E s \in QueryInputs : SetChatInput(s)
    \/ FirstExchange /\ handleChatSend
    \/ ChatSendResume
    \/ Render
    \/ \E q \in ServerQueries, data \in UserDataInputs : PostChat("server", q, data)
    \/ \E c \in Calls, a \in Answers, jitter \in JitterSamples : UpstreamSettles(c, a, jitter)
    \/ \E c \in Calls : TimerFires(c)

Spec == Init /\ [][Next]_vars

\* Each awaited promise settles and each timer fires.
FairSpec ==
    /\ Spec
    /\ \A c \in Calls :
          /\ WF_vars(\E a \in Answers, jitter \in JitterSamples : UpstreamSettles(c, a, jitter))
          /\ WF_vars(TimerFires(c))
    /\ WF_vars(ChatSendResume)

\* Bodies for the normalizer: a text, and every attribution list up to MaxAttrs.
NormBodies ==
    {Body(Some(<<Candidate(Some(TextA), Some(l))>>)) : l \in SeqsUpTo(AttrShapes, MaxAttrs)}

NormInit ==
    /\ ChatInit
    /\ SessionIdle
    /\ nIn \in NormBodies
    /\ nOut = UNDEF
    /\ PromptIdle
    /\ ApiIdle

NormNext == Normalize

SpecNormalizer == NormInit /\ [][NormNext]_vars

\* Two requests to POST /chat served concurrently.
ServersNext ==
    \/ \E c \in Servers, q \in ServerQueries, data \in UserDataInputs : PostChat(c, q, data)
    \/ \E c \in Servers, a \in Answers, jitter \in JitterSamples : UpstreamSettles(c, a, jitter)
    \/ \E c \in Servers : TimerFires(c)

SpecServers == Init /\ [][ServersNext]_vars

\* One POST /chat request after another, each awaited promise settling and
\* each timer firing.
ServerNext ==
    \/ \E q \in ServerQueries, data \in UserDataInputs : PostChat("server", q, data)
    \/ \E a \in Answers, jitter \in JitterSamples : UpstreamSettles("server", a, jitter)
    \/ TimerFires("server")

FairSpecServer ==
    /\ Init
    /\ [][ServerNext]_vars
    /\ WF_vars(\E a \in Answers, jitter \in JitterSamples : UpstreamSettles("server", a, jitter))
    /\ WF_vars(TimerFires("server"))

\* Values of a text field, of a numeric field (the profile form keeps what
\* was typed, the stored profile holds Numbers) and of a list field.
TextValues == {Undefined, Null, Str(""), Str("Asha")}
NumberValues == {Undefined, Str(""), Num(0), Num(70)}
ChoiceValues == {Undefined, Str("Vegetarian")}
Items == {"A", "B"}
ListValues == {Undefined, Null} \cup {Arr(l) : l \in SeqsUpTo(Items, MaxItems)}

UserContexts ==
    [name : TextValues, age : NumberValues, weight : {Undefined, Num(70)},
     height : {Undefined, Str("170")}, goal : ChoiceValues, region : ChoiceValues,
     dietPreference : ChoiceValues, healthIssues : ListValues,
     allergies : ListValues]

PromptInit ==
    /\ ChatInit
    /\ SessionIdle
    /\ NormIdle
    /\ pIn \in UserContexts
    /\ pOut = UNDEF
    /\ ApiIdle

PromptNext == ComposePrompt

SpecPrompt == PromptInit /\ [][PromptNext]_vars

\* x-auth-token headers: none, empty, not a token, signed with another
\* secret, expired, and valid ones for a stored user, for a user that is
\* not stored, and with no user in the payload.
Headers ==
    {UNDEF, Some(EmptyHeader), Some(Garbage),
     Some(Jwt("other", FALSE, Some([id |-> "u1"]))),
     Some(Jwt("JWT_SECRET", TRUE, Some([id |-> "u1"]))),
     Some(Jwt("JWT_SECRET", FALSE, Some([id |-> "u1"]))),
     Some(Jwt("JWT_SECRET", FALSE, Some([id |-> "u2"]))),
     Some(Jwt("JWT_SECRET", FALSE, UNDEF))}

ProfileBodies ==
    [name : {Undefined, Str(""), Str("Ravi")},
     weight : {Undefined, Num(0)},
     region : {Str(""), Str("North India")},
     healthIssues : {Undefined, Arr(<<"A">>)}]

ChatBodies == [userQuery : ServerQueries, userData : UserDataInputs]

GetBodies == {UNDEF}

PutFailures == {"none", "find", "save", "refetch"}

ApiNext ==
    \/ \E header \in Headers :
          \/ \E body \in GetBodies : Request("GET /profile", header, body)
          \/ \E body \in ProfileBodies : Request("PUT /profile", header, body)
          \/ \E body \in ChatBodies : Request("POST /chat", header, body)
    \/ auth
    \/ \E dbFails \in BOOLEAN : GetProfile(dbFails)
    \/ \E failsAt \in PutFailures : PutProfile(failsAt)

SpecApi == Init /\ [][ApiNext]_vars

\* The profile routes alone, for requests that pass the middleware: bodies
\* in which each field may be missing, and tokens of a stored and of an
\* unknown user.
ValidHeaders ==
    {Some(Jwt("JWT_SECRET", FALSE, Some([id |-> "u1"]))),
     Some(Jwt("JWT_SECRET", FALSE, Some([id |-> "u2"])))}

PutBodies ==
    [name : {Undefined, Str(""), Str("Ravi")},
     weight : {Undefined, Num(0), Num(70)},
     region : {Undefined, Str(""), Str("North India")},
     healthIssues : {Undefined, Arr(<<>>), Arr(<<"A">>)}]

ProfileNext ==
    \/ \E header \in ValidHeaders :
          \/ \E body \in GetBodies : Request("GET /profile", header, body)
          \/ \E body \in PutBodies : Request("PUT /profile", header, body)
    \/ auth
    \/ \E dbFails \in BOOLEAN : GetProfile(dbFails)
    \/ \E failsAt \in PutFailures : PutProfile(failsAt)

SpecProfile == Init /\ [][ProfileNext]_vars

\* The chat page alone, for MaxExchanges questions: send events at any
\* time, the answers of the upstream, the backoff timers and the renders.
MoreExchanges == Len(chatMessages) < 1 + 2 * MaxExchanges

UiNext ==
    \/ \E s \in QueryInputs : SetChatInput(s)
    \/ MoreExchanges /\ handleChatSend
    \/ ChatSendResume
    \/ Render
    \/ \E a \in Answers, jitter \in JitterSamples : UpstreamSettles("client", a, jitter)
    \/ TimerFires("client")

SpecUi == Init /\ [][UiNext]_vars

\* Each awaited promise settles, each timer fires and the handler resumes.
FairSpecUi ==
    /\ SpecUi
    /\ WF_vars(\E a \in Answers, jitter \in JitterSamples : UpstreamSettles("client", a, jitter))
    /\ WF_vars(TimerFires("client"))
    /\ WF_vars(ChatSendResume)

\* The session of the web client.  localStorage outlives the page: a token
\* of an earlier visit may be there when the page loads.
StoredTokens == {UNDEF, Some("stored-jwt")}

SessionInit ==
    /\ ChatInit
    /\ NormIdle
    /\ PromptIdle
    /\ ApiIdle
    /\ currentPage = "auth"
    /\ isLoggedIn = FALSE
    /\ appUserData = InitialUserData
    /\ localToken \in StoredTokens
    /\ screen = "AuthScreen"
    /\ fetchPc = "start"
    /\ authPc = "idle"
    /\ isAuthLoading = FALSE
    /\ authError = ""
    /\ authData = UNDEF
    /\ updPc = "idle"
    /\ updData = UNDEF
    /\ updResult = "none"

\* Pages the buttons of the app lead to.
NavPages ==
    {"home", "mealLog", "chat", "profile", "progress", "recipes", "expertConsult",
     "settings"}

\* User documents GET /profile answers with.
FilledUser ==
    [StoredUser EXCEPT !.profile = [weight |-> Num(70), region |-> Str("South India"),
                                    healthIssues |-> Arr(<<"A">>)]]
ProfileUsers == {UserJson(SelectMinusPassword(doc)) : doc \in {StoredUser, FilledUser}}

\* Bodies of a successful login or register answer.
AuthBodies == {[token |-> "new-jwt"]}

\* What the profile form sends.
FormData ==
    {[InitialUserData EXCEPT !.name = Str("Ravi"), !.weight = Str("72"),
                             !.healthIssues = Arr(<<"B">>)]}

SessionNext ==
    \/ Mount
    \/ \E answer \in FetchAnswers("GET", ProfileFetchPath, ProfileUsers) : ProfileFetched(answer)
    \/ \E page \in {"auth", "register"} : handlePageSwitch(page)
    \/ \E endpoint \in {"login", "register"} : handleAuth(endpoint)
    \/ \E answer \in FetchAnswers("POST", AuthPath(AuthEndpoint), AuthBodies) : AuthSettles(answer)
    \/ \E page \in NavPages : Navigate(page)
    \/ handleLogout
    \/ \E formattedData \in FormData : handleProfileUpdate(formattedData)
    \/ \E answer \in FetchAnswers("PUT", ProfileUpdatePath, FormData) : ProfileUpdateSettles(answer)

SpecSession == SessionInit /\ [][SessionNext]_vars

\* Each awaited request of the page settles.
FairSpecSession ==
    /\ SpecSession
    /\ WF_vars(Mount)
    /\ WF_vars(\E answer \in FetchAnswers("GET", ProfileFetchPath, ProfileUsers) :
                   ProfileFetched(answer))
    /\ WF_vars(\E answer \in FetchAnswers("POST", AuthPath(AuthEndpoint), AuthBodies) :
                   AuthSettles(answer))

----------------------------------------------------------------------------
(* What the specification expects of an upstream answer, stated without the *)
(* code's parsing operators.                                               *)

\* The text at candidates[0].content.parts[0].text, UNDEF when the path is absent.
PrimaryText(b) ==
    IF /\ b.parses
       /\ b.candidates # UNDEF
       /\ Len(b.candidates[1]) >= 1
       /\ b.candidates[1][1].content # UNDEF
       /\ b.candidates[1][1].content[1].parts # UNDEF
       /\ Len(b.candidates[1][1].content[1].parts[1]) >= 1
    THEN b.candidates[1][1].content[1].parts[1][1].text
    ELSE UNDEF

NonEmptyText(t) == t # UNDEF /\ t # Some("")

\* The grounding-attribution list of the first candidate (empty when absent).
PayloadAttrs(b) ==
    IF /\ b.parses
       /\ b.candidates # UNDEF
       /\ Len(b.candidates[1]) >= 1
       /\ b.candidates[1][1].groundingMetadata # UNDEF
       /\ b.candidates[1][1].groundingMetadata[1].groundingAttributions # UNDEF
    THEN b.candidates[1][1].groundingMetadata[1].groundingAttributions[1]
    ELSE <<>>

IsComplete(a) ==
    /\ ~a.isNull
    /\ a.web # UNDEF
    /\ NonEmptyText(a.web[1].uri)
    /\ NonEmptyText(a.web[1].title)

\* The subsequence of complete attributions, each as {uri, title}.
RECURSIVE CompleteOnly(_)
CompleteOnly(l) ==
    IF l = <<>> THEN <<>>
    ELSE IF IsComplete(Head(l))
         THEN <<[uri |-> Head(l).web[1].uri, title |-> Head(l).web[1].title]>>
              \o CompleteOnly(Tail(l))
         ELSE CompleteOnly(Tail(l))

\* An answer of the expected shape: 2xx, a parsed body, a non-empty primary
\* text, and attribution entries that are objects.
ValidPayload(a) ==
    /\ a.kind = "http"
    /\ a.status \in 200..299
    /\ a.read
    /\ NonEmptyText(PrimaryText(a.body))
    /\ \A k \in 1..Len(PayloadAttrs(a.body)) : ~PayloadAttrs(a.body)[k].isNull

Answered(c) == resp[c].kind # "none"
Terminal(c) == pc[c] \in {"returned", "done", "fault"}
Apologies ==
    { "Sorry, I encountered a network error and could not reach the AI. Please check your connection and try again.",
      "Sorry, I encountered an error. Please try again." }
IsFallback(r) == r.sources = <<>> /\ r.text # UNDEF /\ r.text[1] \in Apologies

----------------------------------------------------------------------------
(* Claims *)

\* C1: one chat call (client callGeminiApi or the server POST /chat handler)
\* issues at most 5 upstream requests, whatever the upstream answers.
C1_AtMostFiveRequests == \A c \in Calls : calls[c] <= 5

C1_Witness == \E c \in Calls : calls[c] = 5 /\ settled[c] = 5

\* C2: when the first k answers (0 <= k <= 4) are failures and answer k+1 is
\* a valid payload, the call returns that payload's {text, sources} and has
\* made exactly k+1 upstream calls.
C2_RetryThenSuccess ==
    \A c \in Calls :
        (ValidPayload(resp[c]) /\ settled[c] <= 5) =>
            /\ outcome[c] = "SUCCESS"
            /\ Terminal(c)
            /\ calls[c] = settled[c]
            /\ result[c] = <<[text |-> PrimaryText(resp[c].body),
                              sources |-> CompleteOnly(PayloadAttrs(resp[c].body))]>>

C2_Witness ==
    \E c \in Calls :
        /\ ValidPayload(resp[c])
        /\ settled[c] = 5
        /\ calls[c] = 5
        /\ outcome[c] = "SUCCESS"
        /\ Len(result[c][1].sources) = 1

\* C3: when every upstream attempt fails, the call returns the fixed fallback
\* {text: <apology>, sources: []} after exactly 5 attempts.
C3_FallbackAfterFive ==
    \A c \in Calls :
        /\ (settled[c] = 5 /\ Answered(c) /\ ~ValidPayload(resp[c])) =>
               outcome[c] = "EXHAUSTED"
        /\ outcome[c] = "EXHAUSTED" =>
               /\ calls[c] = 5
               /\ settled[c] = 5
               /\ Len(result[c]) = 1
               /\ IsFallback(result[c][1])

C3_Witness ==
    \A c \in {"client", "server"} : outcome[c] = "EXHAUSTED" /\ Len(result[c]) = 1

\* C4: every chat request, whatever its body (a missing userData or userQuery
\* included) and whatever the upstream does, ends with a well-formed
\* ChatResponse {text, sources}; no exception escapes the call.
C4_AlwaysChatResponse ==
    \A c \in Calls :
        Terminal(c) =>
            /\ outcome[c] # "FAULT"
            /\ Len(result[c]) = 1
            /\ result[c][1].text # UNDEF

\* C5 as claimed: the server endpoint answers 200 on every completion, the
\* exhausted fallback included.
C5_Always200 == pc["server"] = "done" => status["server"] = 200

\* C5 as amended: the server endpoint answers 200 with the result when an
\* attempt succeeded, and 500 with the fallback body when all 5 attempts failed.
C5_StatusByOutcome ==
    /\ outcome["server"] = "SUCCESS" => status["server"] = 200
    /\ outcome["server"] = "EXHAUSTED" =>
           /\ status["server"] = 500
           /\ settled["server"] = 5
           /\ IsFallback(result["server"][1])
    /\ status["server"] # 0 => outcome["server"] \in {"SUCCESS", "EXHAUSTED"}

C5_Witness ==
    /\ outcome["server"] = "EXHAUSTED"
    /\ status["server"] = 500
    /\ pc["server"] = "done"

\* C6: an attempt is a success only with a 2xx status and a non-empty text at
\* candidates[0].content.parts[0].text; an answer with empty candidates, a
\* missing text or an empty text is a retryable failure, so no success
\* response has an empty text.
C6_SuccessNeedsText ==
    \A c \in Calls :
        /\ outcome[c] = "SUCCESS" =>
               /\ resp[c].kind = "http"
               /\ resp[c].status \in 200..299
               /\ NonEmptyText(PrimaryText(resp[c].body))
               /\ NonEmptyText(result[c][1].text)
        /\ (Answered(c) /\ ~NonEmptyText(PrimaryText(resp[c].body))) =>
               /\ Len(log[c]) = settled[c]
               /\ settled[c] < 5 => pc[c] = "sleeping"
               /\ settled[c] = 5 => outcome[c] = "EXHAUSTED"

C6_Witness ==
    \E c \in Calls :
        /\ resp[c].kind = "http"
        /\ resp[c].status = 200
        /\ resp[c].body.parses
        /\ PrimaryText(resp[c].body) = Some("")
        /\ pc[c] = "sleeping"

\* C7: the returned sources are exactly the subsequence of attributions whose
\* web uri and web title are both truthy, each as {uri, title}, in upstream
\* order; an attribution lacking either, or lacking web, is dropped.
C7_SourcesAreCompleteOnes ==
    (nOut # UNDEF /\ nOut[1].ok) =>
        nOut[1].sources = CompleteOnly(PayloadAttrs(nIn))

C7_Witness ==
    /\ nOut # UNDEF
    /\ nOut[1].ok
    /\ PayloadAttrs(nIn) = <<UriOnly, S1>>
    /\ nOut[1].sources = <<[uri |-> Some("u1"), title |-> Some("t1")]>>

\* C8: when userQuery is empty after trimming, no upstream call is
\* dispatched, on the UI path and in the server handler.
C8_NoDispatchOnBlank ==
    \A c \in Calls :
        (reqQuery[c] # UNDEF /\ Trim(reqQuery[c][1]) = <<>>) => calls[c] = 0

\* C9: within one call attempt N+1 is issued only after attempt N has
\* resolved and its backoff has elapsed: at most one request of the call is
\* in flight, and none while the call sleeps.
C9_OneInFlight ==
    \A c \in Calls :
        /\ Cardinality(pending[c]) <= 1
        /\ calls[c] <= settled[c] + 1
        /\ Cardinality(pending[c]) = calls[c] - settled[c]
        /\ pc[c] = "sleeping" => pending[c] = {}
        /\ pending[c] # {} => pending[c] = {i[c]} /\ pc[c] = "fetching"

C9_Witness ==
    \E c \in Calls : calls[c] = 3 /\ settled[c] = 2 /\ pending[c] = {2}

\* C10: given that every upstream request settles and every backoff timer
\* fires, each chat call eventually reaches SUCCESS or EXHAUSTED, and no
\* other terminal state exists.
C10_TerminatesInTwoStates ==
    /\ [](\A c \in Calls : Terminal(c) => outcome[c] \in {"SUCCESS", "EXHAUSTED"})
    /\ \A c \in Calls : (pc[c] # "idle") ~> (outcome[c] \in {"SUCCESS", "EXHAUSTED"})

\* C11: a transport error, a non-2xx status and a 2xx body of the wrong shape
\* (a body that fails to parse included) are handled alike: each consumes
\* exactly one of the 5 attempts, is logged with its attempt index, and is
\* followed by a retry unless it was the 5th attempt.
C11_FailuresTreatedAlike ==
    \A c \in Calls :
        (Answered(c) /\ ~ValidPayload(resp[c])) =>
            /\ calls[c] = settled[c]
            /\ Len(log[c]) = settled[c]
            /\ \A k \in 1..Len(log[c]) : log[c][k] = k
            /\ settled[c] < 5 => (pc[c] = "sleeping" /\ delay[c] > 0 /\ outcome[c] = "NONE")
            /\ settled[c] = 5 => (Terminal(c) /\ outcome[c] = "EXHAUSTED")

C11_Witness ==
    /\ resp["client"].kind = "reject"
    /\ settled["client"] = 2
    /\ pc["client"] = "sleeping"
    /\ resp["server"] = HttpBody(200, Unparsable)
    /\ settled["server"] = 5
    /\ log["server"] = <<1, 2, 3, 4, 5>>

\* C12: in a call whose attempts all fail, the backoff delays between
\* successive attempts, jitter ignored, are strictly increasing:
\* 1000, 2000, 4000, 8000 ms.
C12_BackoffIncreases ==
    \A c \in Calls :
        /\ \A k \in 1..(Len(bases[c]) - 1) : bases[c][k] < bases[c][k + 1]
        /\ outcome[c] = "EXHAUSTED" => bases[c] = <<1000, 2000, 4000, 8000>>

C12_Witness ==
    \E c \in Calls : outcome[c] = "EXHAUSTED" /\ Len(bases[c]) = 4

\* C13: after failed attempt i (zero-indexed, 0 <= i <= 3) the wait before
\* the next attempt lies between 2^i * 1000 ms and 2^i * 1000 + 1000 ms, and
\* never exceeds the cap (30 s, as the specification suggests; the code sets
\* none) plus 1000 ms.
C13_DelayRange ==
    \A c \in Calls :
        pc[c] = "sleeping" =>
            /\ i[c] \in 0..3
            /\ delay[c] >= (2 ^ i[c]) * 1000
            /\ delay[c] <= (2 ^ i[c]) * 1000 + 1000
            /\ delay[c] <= 30000 + 1000

C13_Witness ==
    \E c \in Calls : pc[c] = "sleeping" /\ i[c] = 3 /\ delay[c] = 8999

\* C14 as claimed: each attempt of a chat call emits one log line.
C14_EveryAttemptLogs == \A c \in Calls : Len(log[c]) = settled[c]

\* C14 as amended: each failed attempt emits one log line carrying its
\* attempt index, a successful attempt emits none, and a step of the retry
\* wrapper has no effect outside its own call (the UI state is untouched).
C14_FailedAttemptsLog ==
    /\ [](\A c \in Calls :
            /\ Len(log[c]) = settled[c] - (IF outcome[c] = "SUCCESS" THEN 1 ELSE 0)
            /\ \A k \in 1..Len(log[c]) : log[c][k] = k)
    /\ [][\A c \in Calls :
            (settled'[c] = settled[c] + 1 \/ (pc[c] = "sleeping" /\ pc'[c] # "sleeping")) =>
                UNCHANGED <<chatInput, isTyping>>]_vars

C14_Witness ==
    \E c \in Calls : outcome[c] = "SUCCESS" /\ settled[c] = 3 /\ log[c] = <<1, 2>>

\* C17 as claimed: every upstream AI request is issued by the server's
\* POST /chat handler; the client sends no upstream request of its own.
C17_OnlyServerCallsUpstream ==
    \A c \in Calls : calls[c] > 0 => c = "server"

----------------------------------------------------------------------------
(* The prompt builder's claims, checked under SpecPrompt. *)

Absent(x) == x.t \in {"undefined", "null"}

FallbackToken ==
    [name |-> "N/A", age |-> "N/A", weight |-> "N/A", height |-> "N/A",
     goal |-> "General Health", region |-> "All India",
     dietPreference |-> "N/A", healthIssues |-> "None", allergies |-> "None"]

ContextFields == DOMAIN FallbackToken
ListFields == {"healthIssues", "allergies"}

\* C15: every absent field of the user context renders as its fallback token
\* (name, age, weight, height, dietPreference: N/A; goal: General Health;
\* region: All India; healthIssues, allergies: None), an empty list renders
\* as None, and no slot of the prompt holds "undefined" or nothing.
C15_AbsentFieldsFallBack ==
    IsDefined(pOut) =>
        LET ctx == Val(pOut).profileContext IN
        /\ \A f \in ContextFields :
              /\ Absent(pIn[f]) => ctx[f] = FallbackToken[f]
              /\ ctx[f] \notin {"undefined", "null", ""}
        /\ \A f \in ListFields : pIn[f] = Arr(<<>>) => ctx[f] = "None"
        /\ Val(pOut).instructionRegion \notin {"undefined", "null", ""}

C15_Witness ==
    /\ IsDefined(pOut)
    /\ pIn = [EmptyUserData EXCEPT !.allergies = Arr(<<>>)]
    /\ Val(pOut).profileContext.allergies = "None"
    /\ Val(pOut).profileContext.goal = "General Health"

RECURSIVE ItemsInOrder(_)
\* s1, s2, ..., sn written out from the left, for n >= 1
ItemsInOrder(l) ==
    IF Len(l) = 1 THEN l[1]
    ELSE ItemsInOrder(SubSeq(l, 1, Len(l) - 1)) \o ", " \o l[Len(l)]

----------------------------------------------------------------------------
(* Concurrent chat calls, checked under SpecServers. *)

\* Everything the model keeps about one call.
CallState(c) ==
    <<pc[c], reqQuery[c], reqData[c], payload[c], i[c], calls[c], pending[c], resp[c],
      settled[c], log[c], delay[c], bases[c], result[c], status[c], outcome[c]>>

\* The answers of this call that were failures.
FailedAnswers(c) ==
    settled[c] - (IF Answered(c) /\ ValidPayload(resp[c]) THEN 1 ELSE 0)

\* What a call must have returned, told from its own answers alone.
OwnResult(c) ==
    IF Answered(c) /\ ValidPayload(resp[c])
    THEN <<[text |-> PrimaryText(resp[c].body),
            sources |-> CompleteOnly(PayloadAttrs(resp[c].body))]>>
    ELSE IF Answered(c) /\ settled[c] = 5
         THEN <<[text |-> Some(IF c = "client"
                               THEN "Sorry, I encountered a network error and could not reach the AI. Please check your connection and try again."
                               ELSE "Sorry, I encountered an error. Please try again."),
                 sources |-> <<>>]>>
         ELSE <<>>

\* C18: chat calls are independent.  In every interleaving of two concurrent
\* calls, a call's attempt counter, its number of upstream requests and its
\* result are functions of its own input and its own upstream answers; two
\* calls with the same input and answers are in the same state; and no step
\* of one call changes anything of another call.
C18_CallsIndependent ==
    /\ [](\A c \in Calls :
            /\ i[c] = (IF pc[c] = "sleeping" \/ (Answered(c) /\ ~ValidPayload(resp[c]) /\ settled[c] = 5)
                       THEN FailedAnswers(c) - 1
                       ELSE FailedAnswers(c))
            /\ calls[c] = settled[c] + Cardinality(pending[c])
            /\ result[c] = OwnResult(c))
    /\ [](\A c, d \in Servers :
            (/\ reqQuery[c] = reqQuery[d]
             /\ reqData[c] = reqData[d]
             /\ resp[c] = resp[d]
             /\ settled[c] = settled[d]
             /\ pc[c] = pc[d]) =>
                /\ i[c] = i[d]
                /\ calls[c] = calls[d]
                /\ result[c] = result[d]
                /\ status[c] = status[d])
    /\ [][\A c, d \in Calls :
            c # d => (CallState(c)' = CallState(c) \/ CallState(d)' = CallState(d))]_vars

C18_Witness ==
    /\ outcome["server"] = "SUCCESS"
    /\ calls["server"] = 2
    /\ pc["server2"] = "sleeping"
    /\ i["server2"] = 3
    /\ calls["server2"] = 4

----------------------------------------------------------------------------
(* The private routes' claims, checked under SpecApi. *)

\* The request carries no token: no x-auth-token header, or an empty one.
TokenMissing(h) == h = UNDEF \/ h[1].kind = "empty"

\* The token is one the server signed and has not expired.
TokenValid(h) ==
    /\ h # UNDEF
    /\ h[1].kind = "jwt"
    /\ h[1].secret = "JWT_SECRET"
    /\ ~h[1].expired

MiddlewareDone == aPc \in {"handler", "closed"}

\* C19: on a private route (GET /profile, PUT /profile, POST /chat) the
\* handler runs only after the auth middleware has verified the
\* x-auth-token header.  A request with no token gets 401 "No token,
\* authorization denied", one with an invalid or expired token gets 401
\* "Token is not valid"; in both cases next() is not called, req.user is
\* not set, and nothing the handler does (a database write, an upstream
\* request) happens.
C19_AuthGuardsPrivateRoutes ==
    /\ [](handlerRan => (nextCalled /\ TokenValid(req.token)))
    /\ [](MiddlewareDone /\ TokenMissing(req.token) =>
            /\ apiRes.status = 401
            /\ apiRes.body = [kind |-> "msg", msg |-> "No token, authorization denied"]
            /\ ~nextCalled /\ reqUser = UNDEF /\ ~handlerRan)
    /\ [](MiddlewareDone /\ ~TokenMissing(req.token) /\ ~TokenValid(req.token) =>
            /\ apiRes.status = 401
            /\ apiRes.body = [kind |-> "msg", msg |-> "Token is not valid"]
            /\ ~nextCalled /\ reqUser = UNDEF /\ ~handlerRan)
    /\ [][(pc'["server"] # pc["server"] \/ calls'["server"] # calls["server"] \/ db' # db) =>
            (TokenValid(req.token) /\ nextCalled')]_vars

C19_Witness ==
    /\ aPc = "closed"
    /\ req.route = "POST /chat"
    /\ req.token = Some(Jwt("JWT_SECRET", TRUE, Some([id |-> "u1"])))
    /\ apiRes = JsonMsg(401, "Token is not valid")
    /\ ~handlerRan
    /\ calls["server"] = 0

\* C20: no response of GET /profile or PUT /profile carries the password
\* hash: every user object returned is the stored user without its password
\* field.
C20_NoPasswordInResponses ==
    /\ apiRes.body.kind = "user" =>
          LET doc == apiRes.body.doc
              stored == db[reqUser[1].id]
          IN  /\ req.route \in {"GET /profile", "PUT /profile"}
              /\ "password" \notin DOMAIN doc
              /\ DOMAIN doc = DOMAIN stored \ {"password"}
              /\ \A f \in DOMAIN doc : doc[f] = stored[f]
    /\ (req.route \in {"GET /profile", "PUT /profile"} /\ apiRes.status = 200) =>
          apiRes.body.kind = "user"

C20_Witness ==
    /\ req.route = "PUT /profile"
    /\ apiRes.status = 200
    /\ apiRes.body.kind = "user"
    /\ apiRes.body.doc.name = "Ravi"
    /\ apiRes.body.doc.profile.weight = Num(0)
    /\ db["u1"].password = "$2a$10$hash"

\* Some candidate after the first, or some part after the first, carries a
\* non-empty text.
TextElsewhere(b) ==
    /\ b.parses
    /\ b.candidates # UNDEF
    /\ \E k \in 1..Len(b.candidates[1]) :
          LET cand == b.candidates[1][k] IN
          /\ cand.content # UNDEF
          /\ cand.content[1].parts # UNDEF
          /\ \E n \in 1..Len(cand.content[1].parts[1]) :
                /\ k > 1 \/ n > 1
                /\ NonEmptyText(cand.content[1].parts[1][n].text)

\* C21: the text of a successful response is the first part of the first
\* candidate and nothing else: a 2xx body whose first candidate's first part
\* has no text is a failed attempt, even when a later candidate or a later
\* part carries text.
C21_TextFromFirstPartOnly ==
    \A c \in Calls :
        /\ outcome[c] = "SUCCESS" =>
              result[c][1].text = PrimaryText(resp[c].body)
        /\ (/\ resp[c].kind = "http"
            /\ resp[c].status \in 200..299
            /\ ~NonEmptyText(PrimaryText(resp[c].body))) =>
              /\ outcome[c] # "SUCCESS"
              /\ Len(log[c]) = settled[c]
              /\ settled[c] < 5 => pc[c] = "sleeping"

C21_Witness ==
    /\ resp["client"] =
          HttpBody(200, Body(Some(<<CandidateNoContent, CandidateNoMetadata(Some(TextA))>>)))
    /\ TextElsewhere(resp["client"].body)
    /\ pc["client"] = "sleeping"
    /\ resp["server"] =
          HttpBody(200, Body(Some(<<CandidateNoMetadata(Some(<<Part(UNDEF), Part(Some("A"))>>))>>)))
    /\ TextElsewhere(resp["server"].body)
    /\ outcome["server"] = "EXHAUSTED"

----------------------------------------------------------------------------
(* The two variants side by side, checked under Spec. *)

\* Where a call is, with the client's two "over" positions taken as one.
Phase(c) == IF pc[c] \in {"returned", "done"} THEN "over" ELSE pc[c]

\* The client call and the server call were given the same query and user
\* context, have received the same number of answers, the same last answer,
\* and stand at the same point.
SameRun ==
    /\ IsDefined(payload["client"]) /\ IsDefined(payload["server"])
    /\ reqQuery["client"] = reqQuery["server"]
    /\ reqData["client"] = reqData["server"]
    /\ settled["client"] = settled["server"]
    /\ resp["client"] = resp["server"]
    /\ Phase("client") = Phase("server")

C22_WitnessSuccess ==
    /\ SameRun
    /\ outcome["client"] = "SUCCESS"
    /\ settled["server"] = 3
    /\ Len(result["server"][1].sources) = 2

----------------------------------------------------------------------------
(* The state machine of one call, checked under Spec. *)

\* C23: a call goes PENDING -> RETRYING -> PENDING ... -> SUCCESS or
\* EXHAUSTED.  It sleeps only after a failed attempt 1 to 4, never after the
\* 5th failure and never after a success, so it sleeps at most 4 times; and
\* once it is in SUCCESS or EXHAUSTED it makes no further upstream call and
\* sleeps no more.
C23_SleepOnlyBetweenAttempts ==
    /\ [](\A c \in Calls :
            /\ Len(bases[c]) <= 4
            /\ Len(bases[c]) = (IF FailedAnswers(c) < 4 THEN FailedAnswers(c) ELSE 4)
            /\ pc[c] = "sleeping" =>
                  /\ Answered(c) /\ ~ValidPayload(resp[c])
                  /\ settled[c] \in 1..4
                  /\ outcome[c] = "NONE"
            /\ outcome[c] \in {"SUCCESS", "EXHAUSTED"} =>
                  /\ pc[c] \in {"returned", "done"}
                  /\ pending[c] = {}
                  /\ delay[c] = 0)
    /\ [][\A c \in Calls :
            /\ (pc[c] = "sleeping" /\ pc'[c] # "sleeping") => pc'[c] = "fetching"
            /\ (pc[c] = "fetching" /\ pc'[c] # "fetching") =>
                  pc'[c] \in {"sleeping", "returned", "done"}
            /\ (outcome[c] \in {"SUCCESS", "EXHAUSTED"} /\ settled'[c] # 0) =>
                  /\ calls'[c] = calls[c]
                  /\ bases'[c] = bases[c]
                  /\ delay'[c] = 0]_vars

C23_Witness ==
    /\ outcome["client"] = "SUCCESS"
    /\ settled["client"] = 5
    /\ Len(bases["client"]) = 4
    /\ pc["client"] = "done"
    /\ outcome["server"] = "EXHAUSTED"
    /\ Len(bases["server"]) = 4

\* C24: for a POST /chat request that carries a userData object the server
\* handler sends exactly one HTTP response: the success body of the first
\* successful attempt, or the fallback body after the 5th failure; never
\* both, and never a second one from a later iteration of the loop.
C24_ExactlyOneResponse ==
    /\ [](\A c \in Servers :
            /\ Len(result[c]) <= 1
            /\ (IsDefined(reqData[c]) /\ pc[c] = "done") =>
                  /\ Len(result[c]) = 1
                  /\ outcome[c] = "SUCCESS" =>
                        (ValidPayload(resp[c]) /\ FailedAnswers(c) = settled[c] - 1)
                  /\ outcome[c] = "EXHAUSTED" => (settled[c] = 5 /\ IsFallback(result[c][1]))
            /\ (IsDefined(reqData[c]) /\ pc[c] \in {"fetching", "sleeping"}) =>
                  Len(result[c]) = 0)
    /\ (IsDefined(reqData["server"]) /\ pc["server"] = "fetching") ~>
          (Len(result["server"]) = 1)

C24_Witness ==
    /\ pc["server"] = "done"
    /\ IsDefined(reqData["server"])
    /\ outcome["server"] = "SUCCESS"
    /\ settled["server"] = 2
    /\ status["server"] = 200
    /\ Len(result["server"]) = 1

\* C25: PUT /profile changes only what the request carries.  A profile field
\* that is absent from the body keeps its stored value, the name changes
\* only to a non-empty name that was supplied, email and password are never
\* modified, and no other request changes a stored user at all.
C25_PutChangesOnlyWhatIsSent ==
    [][\A id \in DOMAIN db :
          /\ DOMAIN db' = DOMAIN db
          /\ db'[id].email = db[id].email
          /\ db'[id].password = db[id].password
          /\ db'[id] # db[id] =>
                /\ req.route = "PUT /profile"
                /\ aPc = "handler"
                /\ reqUser = Some([id |-> id])
          /\ \A f \in DOMAIN db[id].profile :
                (req.route = "PUT /profile" /\ req.body[f].t = "undefined") =>
                    db'[id].profile[f] = db[id].profile[f]
          /\ db'[id].name # db[id].name =>
                /\ req.body.name.t = "string"
                /\ req.body.name.chars # ""
                /\ db'[id].name = req.body.name.chars]_vars

C25_Witness ==
    /\ req.route = "PUT /profile"
    /\ apiRes.status = 200
    /\ req.body.region = Undefined
    /\ req.body.healthIssues = Undefined
    /\ req.body.name = Str("")
    /\ req.body.weight = Num(0)
    /\ db["u1"].profile.region = Str("North India")
    /\ db["u1"].profile.healthIssues = Arr(<<"A">>)
    /\ db["u1"].profile.weight = Num(0)
    /\ db["u1"].name = "Ravi"
    /\ db["u1"].password = "$2a$10$hash"

\* The chat call is between its dispatch and the handler's last statement.
Awaited == pc["client"] \in {"fetching", "sleeping", "returned"}

\* C26: in the chat UI at most one chat request is in flight at any time.
\* Whatever the order of send events, renders and completions, handleChatSend
\* starts no callGeminiApi call while an earlier one has not completed: while
\* a call is awaited the handlers see isTyping, and a send event then returns.
C26_OneChatRequestInFlight ==
    /\ inFlight <= 1
    /\ inFlight = 1 <=> Awaited
    /\ Awaited => (isTyping /\ view.isTyping)

C26_Witness ==
    /\ ignored
    /\ inFlight = 1
    /\ pc["client"] = "sleeping"
    /\ Len(chatMessages) = 4

\* The senders of a conversation of n messages: the greeting, then a user
\* message and a bot message for each question.
SenderAt(k) == IF k % 2 = 0 THEN "user" ELSE "bot"

\* C27: every dispatched chat query appends exactly one user message and is
\* eventually followed by exactly one bot message, the success result or the
\* fallback, after which isTyping is false again; chatMessages only grows,
\* one message at a time, and keeps the order user message, bot message for
\* each query.
C27_EveryQueryAnswered ==
    /\ [](/\ \A k \in 1..Len(chatMessages) : chatMessages[k].sender = SenderAt(k)
          /\ Awaited <=> Len(chatMessages) % 2 = 0
          /\ Awaited =>
                chatMessages[Len(chatMessages)].text = Some(Val(reqQuery["client"])))
    /\ [][/\ Len(chatMessages') <= Len(chatMessages) + 1
          /\ SubSeq(chatMessages', 1, Len(chatMessages)) = chatMessages
          /\ Len(chatMessages') = Len(chatMessages) + 1 =>
                \/ ~Awaited /\ Awaited' /\ isTyping'
                \/ /\ pc["client"] = "returned" /\ ~Awaited' /\ ~isTyping'
                   /\ LET m == chatMessages'[Len(chatMessages')] IN
                      /\ m.sources = result["client"][1].sources
                      /\ IF outcome["client"] = "SUCCESS"
                         THEN m.text = PrimaryText(resp["client"].body)
                         ELSE m.text = Some(FallbackText("client"))]_vars
    /\ \A n \in 1..MaxExchanges :
          (Len(chatMessages) = 2 * n) ~> (Len(chatMessages) = 2 * n + 1 /\ ~isTyping)

C27_Witness ==
    /\ Len(chatMessages) = 5
    /\ ~isTyping
    /\ pc["client"] = "done"
    /\ chatMessages[3].text = Some(FallbackText("client"))
    /\ chatMessages[5].text # Some(FallbackText("client"))
    /\ chatMessages[5].sources # <<>>

C29_LoggedOutSeesAuthOnly ==
    /\ currentPage = AuthGuard(isLoggedIn, currentPage)
    /\ ~isLoggedIn =>
          /\ currentPage \in {"auth", "register"}
          /\ screen = "AuthScreen"

C29_Witness ==
    /\ ~isLoggedIn
    /\ currentPage = "register"
    /\ updPc = "awaiting"
    /\ authError # ""

\* A step that ends a session: the token is removed or isLoggedIn falls.
SessionEnds ==
    \/ IsDefined(localToken) /\ ~IsDefined(localToken')
    \/ isLoggedIn /\ ~isLoggedIn'

\* C30: logout (handleLogout, also run when the profile fetch fails) removes
\* the stored token, sets isLoggedIn to false, resets every userData field
\* to its empty initial value and sets the page to 'auth'; after it no
\* profile data of the previous session remains in userData.
C30_LogoutClearsSession ==
    /\ [][SessionEnds =>
            /\ localToken' = UNDEF
            /\ ~isLoggedIn'
            /\ \A f \in DOMAIN appUserData' : appUserData'[f] = InitialUserData[f]
            /\ DOMAIN appUserData' = DOMAIN InitialUserData
            /\ currentPage' = "auth"]_vars
    /\ [](~isLoggedIn => appUserData = InitialUserData)

C30_Witness ==
    /\ ~isLoggedIn
    /\ localToken = UNDEF
    /\ fetchPc = "idle"
    /\ currentPage = "auth"
    /\ updPc = "awaiting"
    /\ appUserData = InitialUserData

====
